---- MODULE Spec2Model ----
(***************************************************************************)
(* A model of aapy.py: the search / select / fetch / download pipeline of  *)
(* the Anna's Archive downloader.                                          *)
(*                                                                         *)
(* Strings whose content matters (format keys, anchor text, titles, the    *)
(* query) are sequences of one-character strings, so that lower-casing,    *)
(* substring search and concatenation are computed, not assumed.           *)
(*                                                                         *)
(* Specifications:                                                         *)
(*   SpecRequest  one call of robust_request, attempt by attempt           *)
(*   SpecExtract  extract_search_results on pages and configurations       *)
(*                drawn in Init                                            *)
(*   SpecUrl      construct_search_url, likewise                           *)
(*   SpecFormat   determine_format_type, likewise                          *)
(*   SpecPipeline download_book_by_query (single-query mode) and           *)
(*                interactive_mode (the multi-query loop)                  *)
(*   SpecHeaderCheck the header check of download_file on responses and    *)
(*                formats drawn in Init                                    *)
(***************************************************************************)
EXTENDS Integers, Sequences, FiniteSets, TLC

VARIABLES
    rq,        \* the running call of robust_request (a record, see RqIdle)
    page,      \* SpecExtract: the results page given to extract_search_results
    config,    \* the configuration object (formats, axes, search scalars)
    query,     \* the query string of the current search
    books,     \* the list returned by extract_search_results
    url,       \* the string returned by construct_search_url
    expc,      \* SpecExtract: which functions have been applied
    pl,        \* the pipeline of download_book_by_query / interactive_mode
    all_text,  \* SpecFormat: the text given to determine_format_type
    format_hit \* SpecFormat: what determine_format_type returned

vars == <<rq, page, config, query, books, url, expc, pl, all_text,
          format_hit>>
notRq == <<page, config, query, books, url, expc, pl, all_text,
           format_hit>>

(***************************************************************************)
(* Bounds of the model.                                                    *)
(***************************************************************************)
MaxRetries == 3
MaxAnchors == 3
MaxQueries == 2
MaxChunks == 2
MaxWords == 2

(***************************************************************************)
(*                           robust_request                                *)
(***************************************************************************)

\* What one transport attempt (session.get/head/post, then raise_for_status)
\* can end in: a response with a non-error status, requests.Timeout,
\* requests.ConnectionError, another RequestException, or a response whose
\* status makes raise_for_status raise HTTPError (a RequestException).
Outcomes == {"ok", "timeout", "connection", "request", "http"}

\* Values given as the method argument; "GET" and "put" are not used by the
\* callers of this file but are values the parameter accepts.
Methods == {"get", "head", "post", "GET", "put"}

\* str.lower() on the method names of the model.
MethodLower(m) == IF m = "GET" THEN "get" ELSE m

SupportedMethods == {"get", "head", "post"}

\* The default of the retries parameter, which every caller in the file uses.
DefaultRetries == 3

\* The default of the retry_delay parameter (seconds), which every caller in
\* the file uses.
DefaultRetryDelay == 2

\* range(1, retries + 1), as the sequence the for loop walks through.
AttemptRangeFromZero(retries) == [i \in 1..(retries + 1) |-> i - 1]
AttemptRange(retries) == [i \in 1..retries |-> i]

\* The state of a call of robust_request: its arguments (method, retries,
\* retry_delay, show), the loop (iter, attempt), what it returned (result),
\* its spinner, and what it has done so far: transport calls made, attempts
\* that failed, of which timeouts, the outcome of the last attempt, the
\* calls of time.sleep (their number, and the argument of each in order).
RqIdle ==
    [state |-> "idle", method |-> "get", retries |-> 0, show |-> FALSE,
     retry_delay |-> DefaultRetryDelay,
     iter |-> 0, attempt |-> 0, calls |-> 0, fails |-> 0, sleeps |-> 0,
     timeouts |-> 0, delays |-> <<>>,
     spin |-> "none", result |-> "unset", last |-> "none"]

\* ProgressIndicator.stop(): running := False, thread joined with a timeout.
SpinnerStop(spin) == IF spin = "running" THEN "stopped" ELSE spin

\* Lines 95-100: the state of a call when it reaches the for loop. The spinner
\* is created and started only when show_spinner is true.
robust_request_enter(method, retries, show) ==
    [RqIdle EXCEPT !.state = "loop", !.method = method, !.retries = retries,
                   !.show = show,
                   !.spin = IF show THEN "running" ELSE "none"]

\* Lines 116-123: the attempt succeeded; the spinner is stopped and the
\* response returned. (First, a success that keeps the response and goes on
\* with the loop.)
RqSuccessKeepsLooping(r) ==
    [r EXCEPT !.result = "response", !.last = "ok"]
RqSuccess(r) ==
    [r EXCEPT !.state = "returned", !.result = "response",
              !.spin = SpinnerStop(r.spin), !.last = "ok"]

\* Two other retry policies, to compare the code's with: one that sleeps
\* after the final failed attempt too, one that hands a response with an
\* error status to the caller.
RqFailureSleepsAfterLast(r, o) ==
    LET f == [r EXCEPT !.fails = r.fails + 1, !.last = o,
                       !.sleeps = r.sleeps + 1,
                       !.delays = Append(r.delays, r.retry_delay),
                       !.timeouts = IF o = "timeout" THEN r.timeouts + 1
                                    ELSE r.timeouts]
    IN  IF r.attempt = r.retries
        THEN [f EXCEPT !.state = "returned", !.result = "None",
                       !.spin = SpinnerStop(r.spin)]
        ELSE [f EXCEPT !.state = "loop"]
RqFailureReturnsErrorStatus(r, o) ==
    LET f == [r EXCEPT !.fails = r.fails + 1, !.last = o,
                       !.timeouts = IF o = "timeout" THEN r.timeouts + 1
                                    ELSE r.timeouts]
    IN  IF o = "http"
        THEN [f EXCEPT !.state = "returned", !.result = "response",
                       !.spin = SpinnerStop(r.spin)]
        ELSE IF r.attempt = r.retries
        THEN [f EXCEPT !.state = "returned", !.result = "None",
                       !.spin = SpinnerStop(r.spin)]
        ELSE [f EXCEPT !.state = "loop", !.sleeps = r.sleeps + 1,
                       !.delays = Append(r.delays, r.retry_delay)]

\* Lines 125-150: the three except clauses. They differ in their log messages
\* only: on the last attempt (attempt == retries) the spinner is stopped and
\* None returned, otherwise the call sleeps retry_delay and the loop goes on.
RqFailure(r, o) ==
    LET f == [r EXCEPT !.fails = r.fails + 1, !.last = o,
                       !.timeouts = IF o = "timeout" THEN r.timeouts + 1
                                    ELSE r.timeouts]
    IN  IF r.attempt = r.retries
        THEN [f EXCEPT !.state = "returned", !.result = "None",
                       !.spin = SpinnerStop(r.spin)]
        ELSE [f EXCEPT !.state = "loop", !.sleeps = r.sleeps + 1,
                       !.delays = Append(r.delays, r.retry_delay)]

\* Line 102: the for loop takes its next value, if one is left.
RqLoopHasNext(r) == r.iter < Len(AttemptRange(r.retries))
RqLoopNext(r) ==
    [r EXCEPT !.iter = r.iter + 1,
              !.attempt = AttemptRange(r.retries)[r.iter + 1]]

\* One iteration of the loop with a supported method: the transport call is
\* made and ends in outcome o.
RqAttempt ==
    /\ rq.state = "loop"
    /\ RqLoopHasNext(rq)
    /\ MethodLower(rq.method) \in SupportedMethods
    /\ \E o \in Outcomes :
         LET r == [RqLoopNext(rq) EXCEPT !.calls = rq.calls + 1] IN
         rq' = IF o = "ok" THEN RqSuccess(r) ELSE RqFailure(r, o)
    /\ UNCHANGED notRq

\* Lines 113-114: the method is none of get, head, post. ValueError is raised
\* inside the try; no except clause matches it, so it leaves the function.
\* Nothing stops the spinner on this path.
RqUnsupported ==
    /\ rq.state = "loop"
    /\ RqLoopHasNext(rq)
    /\ MethodLower(rq.method) \notin SupportedMethods
    /\ rq' = [RqLoopNext(rq) EXCEPT !.state = "raised"]
    /\ UNCHANGED notRq

\* Lines 152-154: the loop ended without returning.
RqExhausted ==
    /\ rq.state = "loop"
    /\ ~RqLoopHasNext(rq)
    /\ rq' = [rq EXCEPT !.state = "returned", !.result = "None",
                        !.spin = SpinnerStop(rq.spin)]
    /\ UNCHANGED notRq


(***************************************************************************)
(*                      Strings and the format catalog                     *)
(***************************************************************************)

\* str.lower() on one character.
LowerChar(c) ==
    CASE c = "A" -> "a" [] c = "B" -> "b" [] c = "D" -> "d" [] c = "E" -> "e"
      [] c = "F" -> "f" [] c = "P" -> "p" [] c = "U" -> "u" [] c = "Z" -> "z"
      [] c = "I" -> "i" [] c = "M" -> "m" [] c = "O" -> "o"
      [] OTHER -> c

\* str.lower().
Lower(s) == [i \in 1..Len(s) |-> LowerChar(s[i])]

\* `sub in s` of Python: sub occurs in s as a contiguous substring (the empty
\* string occurs in every string).
Contains(s, sub) ==
    \E i \in 0..(Len(s) - Len(sub)) :
        \A j \in 1..Len(sub) : s[i + j] = sub[j]

\* sep.join(parts).
RECURSIVE Join(_, _)
Join(parts, sep) ==
    IF parts = <<>> THEN <<>>
    ELSE IF Len(parts) = 1 THEN parts[1]
    ELSE parts[1] \o sep \o Join(Tail(parts), sep)

\* Format definitions of config['formats']['definitions']: key, the optional
\* 'priority' (<<>> when the definition has none), extension, content type.
EPUB == [key |-> <<"e","p","u","b">>, priority |-> <<100>>,
         extension |-> ".epub", content_type |-> "application/epub+zip",
         display_name |-> "EPUB"]
PDF  == [key |-> <<"p","d","f">>, priority |-> <<80>>,
         extension |-> ".pdf", content_type |-> "application/pdf",
         display_name |-> "PDF"]
AZW  == [key |-> <<"a","z","w">>, priority |-> <<80>>,
         extension |-> ".azw", content_type |-> "application/octet-stream",
         display_name |-> "AZW"]
AZW3 == [key |-> <<"a","z","w","3">>, priority |-> <<>>,
         extension |-> ".azw3", content_type |-> "application/octet-stream",
         display_name |-> "AZW3"]

\* The catalogs of the model, each in the iteration order of the dict.
Catalogs == { <<EPUB, PDF>>, <<PDF, EPUB, AZW3>>, <<AZW, AZW3, EPUB>> }

CatalogKeys(defs) == {defs[i].key : i \in 1..Len(defs)}

\* determine_format_type: the first definition, in catalog order, whose key
\* occurs in the lower-cased text; <<>> stands for (None, None), <<d>> for
\* (d.key, d).
determine_format_type(text, defs) ==
    LET t == Lower(text)
        hits == {i \in 1..Len(defs) : Contains(t, defs[i].key)}
    IN  IF hits = {} THEN <<>>
        ELSE <<defs[CHOOSE i \in hits : \A j \in hits : i <= j]>>

(***************************************************************************)
(*                         extract_search_results                          *)
(***************************************************************************)

UnknownTitle  == <<"Unknown Title">>
UnknownAuthor == <<"Unknown Author">>
UnknownFormat == <<"Unknown format">>

\* An anchor a[href^="/md5/"] of the page: its href and the text of its
\* children, each <<>> when the child is missing and <<text>> otherwise:
\* the div.text-gray-500 descriptor, the h3 title, the div.italic byline.
Anchor(href, fmt, title, author) ==
    [href |-> href, fmt |-> fmt, title |-> title, author |-> author]

\* link.get_text(separator=' ', strip=True): the text of all children, joined
\* by one blank.
AnchorText(a) == Join(a.fmt \o a.title \o a.author, <<" ">>)

\* First element of an optional child, else the sentinel.
TextOr(opt, sentinel) == IF opt = <<>> THEN sentinel ELSE opt[1]

\* format_info.get('priority', 0)
FormatPriority(info) ==
    IF info.priority = <<>> THEN 0 ELSE info.priority[1]

\* int(token) for the tokens of the model; <<>> when int() raises ValueError.
IntOf(token) ==
    CASE token = "3" -> <<3>> [] token = "12" -> <<12>> [] OTHER -> <<>>

\* Lines 314-323: partial_matches_count. The indicator is the text of the
\* first div.italic.mt-2 as whitespace-separated tokens (<<>> when the page
\* has no such div); <<>> stands for None.
\* (First, the count as it would be were the ValueError of int() not
\* caught.)
PartialMatchesCountUncaught(indicator) ==
    IF /\ indicator # <<>>
       /\ \E i \in 1..(Len(indicator) - 1) :
              indicator[i] = "partial" /\ indicator[i + 1] = "matches"
    THEN IF IntOf(indicator[1]) = <<>> THEN <<"ValueError">>
         ELSE IntOf(indicator[1])
    ELSE <<>>
PartialMatchesCount(indicator) ==
    IF /\ indicator # <<>>
       /\ \E i \in 1..(Len(indicator) - 1) :
              indicator[i] = "partial" /\ indicator[i + 1] = "matches"
    THEN IntOf(indicator[1])
    ELSE <<>>

\* The sort key of line 382 and Python's order on tuples.
SortKeyByIndexOnly(b) == <<0, b.original_index>>
SortKey(b) == <<0 - b.format_priority, b.original_index>>
KeyLess(k1, k2) == k1[1] < k2[1] \/ (k1[1] = k2[1] /\ k1[2] < k2[2])

\* list.sort(key=...): a stable sort; an element is put after every element
\* whose key is not greater than its own. (First, an insertion that looks at
\* the first element only.)
InsertSortedAgainstHead(sorted, b) ==
    IF sorted = <<>> THEN <<b>>
    ELSE IF KeyLess(SortKey(b), SortKey(Head(sorted)))
         THEN <<b>> \o sorted
         ELSE <<Head(sorted), b>> \o Tail(sorted)
RECURSIVE InsertSorted(_, _)
InsertSorted(sorted, b) ==
    IF sorted = <<>> THEN <<b>>
    ELSE IF KeyLess(SortKey(b), SortKey(Head(sorted)))
         THEN <<b>> \o sorted
         ELSE <<Head(sorted)>> \o InsertSorted(Tail(sorted), b)

RECURSIVE SortBooks(_)
SortBooks(bs) ==
    IF bs = <<>> THEN <<>>
    ELSE InsertSorted(SortBooks(SubSeq(bs, 1, Len(bs) - 1)), bs[Len(bs)])

\* Lines 337-344: the anchor is kept when a format was recognised and the
\* format is not in config['formats']['ignore'].
AcceptsAnyKnownFormat(found, cfg) == found # <<>> /\ found[1].key # <<>>
AcceptsFormat(found, cfg) ==
    /\ found # <<>>
    /\ found[1].key # <<>>
    /\ found[1].key \notin cfg.formats.ignore

\* The number of anchors kept among those before position i.
KeptBefore(anchors, i, cfg) ==
    Cardinality({j \in 1..(i - 1) :
        AcceptsFormat(determine_format_type(AnchorText(anchors[j]),
                                            cfg.formats.definitions), cfg)})

\* Lines 330-379: the loop over enumerate(book_links), from position i on.
\* (First, a loop that numbers the candidates it keeps, not the anchors.)
RECURSIVE CollectBooksNumberingKept(_, _, _, _)
CollectBooksNumberingKept(anchors, i, cfg, partial) ==
    IF i > Len(anchors) THEN <<>>
    ELSE
      LET a == anchors[i]
          found == determine_format_type(AnchorText(a), cfg.formats.definitions)
          rest == CollectBooksNumberingKept(anchors, i + 1, cfg, partial)
      IN  IF ~AcceptsFormat(found, cfg) THEN rest
          ELSE << [ link |-> a.href,
                    title |-> TextOr(a.title, UnknownTitle),
                    author |-> TextOr(a.author, UnknownAuthor),
                    format |-> TextOr(a.fmt, UnknownFormat),
                    format_key |-> found[1].key,
                    format_info |-> found[1],
                    format_priority |-> FormatPriority(found[1]),
                    original_index |-> KeptBefore(anchors, i, cfg),
                    is_partial_match |-> partial # <<>> ] >> \o rest
RECURSIVE CollectBooks(_, _, _, _)
CollectBooks(anchors, i, cfg, partial) ==
    IF i > Len(anchors) THEN <<>>
    ELSE
      LET a == anchors[i]
          found == determine_format_type(AnchorText(a), cfg.formats.definitions)
          rest == CollectBooks(anchors, i + 1, cfg, partial)
      IN  IF ~AcceptsFormat(found, cfg) THEN rest
          ELSE << [ link |-> a.href,
                    title |-> TextOr(a.title, UnknownTitle),
                    author |-> TextOr(a.author, UnknownAuthor),
                    format |-> TextOr(a.fmt, UnknownFormat),
                    format_key |-> found[1].key,
                    format_info |-> found[1],
                    format_priority |-> FormatPriority(found[1]),
                    original_index |-> i - 1,
                    is_partial_match |-> partial # <<>> ] >> \o rest

\* html_content as the text of the page: its result anchors in document
\* order, the first p.shown of them in the open, the others inside one
\* comment (the part of the page that is loaded lazily).
CommentOpen  == [kind |-> "<!--", a |-> <<>>]
CommentClose == [kind |-> "-->", a |-> <<>>]
Element(a)   == [kind |-> "a", a |-> <<a>>]
Html(p) ==
    [i \in 1..p.shown |-> Element(p.anchors[i])]
      \o (IF p.shown < Len(p.anchors)
          THEN <<CommentOpen>>
                 \o [i \in 1..(Len(p.anchors) - p.shown) |->
                        Element(p.anchors[p.shown + i])]
                 \o <<CommentClose>>
          ELSE <<>>)

\* Line 309: html_content.replace("<!--", "").replace("-->", "").
Uncomment(html) ==
    SelectSeq(html, LAMBDA t : t.kind \notin {"<!--", "-->"})

\* Lines 311 and 326: soup.select('a[href^="/md5/"]') on the parsed text:
\* the anchors in document order, those inside a comment not among them.
RECURSIVE BookLinks(_, _)
BookLinks(html, inComment) ==
    IF html = <<>> THEN <<>>
    ELSE LET t == Head(html) IN
         IF inComment
         THEN BookLinks(Tail(html), t.kind # "-->")
         ELSE IF t.kind = "<!--" THEN BookLinks(Tail(html), TRUE)
         ELSE IF t.kind = "a" THEN t.a \o BookLinks(Tail(html), FALSE)
         ELSE BookLinks(Tail(html), FALSE)

\* extract_search_results(html_content, config), for the page p.
extract_search_results(p, cfg) ==
    SortBooks(CollectBooks(BookLinks(Uncomment(Html(p)), FALSE), 1, cfg,
                           PartialMatchesCount(p.partial)))


(***************************************************************************)
(*             generate_search_params and construct_search_url             *)
(***************************************************************************)

BASE_URL == <<"https://annas-archive.org">>

\* dict.get(key, default) on an optional entry: <<>> when the key is missing,
\* <<value>> otherwise.
Get(opt, default) == IF opt = <<>> THEN default ELSE opt[1]

\* Lines 203-207 (and 213-217, 223-227, 233-237): one value per item of the
\* axis, the bare item when it is not in the ignore list and the item
\* prefixed with anti__ when it is.
TagItemDropIgnored(item, ignore) ==
    IF item \notin ignore THEN <<item>> ELSE <<>>
TagItem(item, ignore) ==
    IF item \notin ignore THEN <<item>> ELSE << <<"anti__">> \o item >>

RECURSIVE TagItems(_, _)
TagItems(items, ignore) ==
    IF items = <<>> THEN <<>>
    ELSE TagItem(Head(items), ignore) \o TagItems(Tail(items), ignore)

\* list(config['formats']['definitions'].keys())
FormatKeys(defs) == [i \in 1..Len(defs) |-> defs[i].key]

\* generate_search_params: the params dict in insertion order, as a sequence
\* of <<key, kind, value>>; a scalar's value is a string, a list's value a
\* sequence of strings.
generate_search_params(cfg, q) ==
    << <<"index", "scalar", Get(cfg.search.index, <<>>)>>,
       <<"page", "scalar", Get(cfg.search.page, <<"1">>)>>,
       <<"q", "scalar", q>>,
       <<"display", "scalar", Get(cfg.search.display, <<>>)>>,
       <<"sort", "scalar", Get(cfg.search.sort, <<>>)>>,
       <<"content", "list", TagItems(cfg.content.types, cfg.content.ignore)>>,
       <<"ext", "list",
         TagItems(FormatKeys(cfg.formats.definitions), cfg.formats.ignore)>>,
       <<"acc", "list", TagItems(cfg.access.types, cfg.access.ignore)>>,
       <<"lang", "list",
         TagItems(cfg.languages.types, cfg.languages.ignore)>> >>

\* f"{key}={value}"
QueryPart(key, value) == <<key, "=">> \o value

\* Lines 283-290: the query parts of one entry of params. A list gives one
\* part per item; a scalar gives a part only when it is not empty.
PartsOf(entry) ==
    IF entry[2] = "list"
    THEN [i \in 1..Len(entry[3]) |-> QueryPart(entry[1], entry[3][i])]
    ELSE IF entry[3] # <<>> THEN <<QueryPart(entry[1], entry[3])>> ELSE <<>>

RECURSIVE AllParts(_)
AllParts(params) ==
    IF params = <<>> THEN <<>>
    ELSE PartsOf(Head(params)) \o AllParts(Tail(params))

\* construct_search_url(query, config): the URL as a sequence of tokens.
construct_search_url(q, cfg) ==
    BASE_URL \o <<"/search?">>
             \o Join(AllParts(generate_search_params(cfg, q)), <<"&">>)


(***************************************************************************)
(*                     The inputs the model draws from                     *)
(***************************************************************************)

\* The double quote character.
Quote == "\""

Dune       == <<"D","u","n","e">>
Foundation == <<"F","o","u","n","d","a","t","i","o","n">>
Herbert    == <<"H","e","r","b","e","r","t">>

\* The anchors a page is made of.
A1 == Anchor("/md5/a1", << <<"e","p","u","b">> >>, <<Foundation>>, <<>>)
A2 == Anchor("/md5/a2", << <<"p","d","f">> >>, <<Dune>>, <<Herbert>>)
A3 == Anchor("/md5/a3", << <<"E","P","U","B">> >>, <<>>, <<Herbert>>)
A4 == Anchor("/md5/a4", << <<"t","x","t">> >>, <<Dune>>, <<>>)
A5 == Anchor("/md5/a5", << <<"a","z","w","3">> >>, << <<"P","D","F">> >>, <<>>)

AnchorKinds == {A1, A2, A3, A4, A5}

\* An anchor whose title and byline hold characters that file names must
\* not hold.
A6 == Anchor("/md5/a6", << <<"e","p","u","b">> >>,
             << <<"D", "/", "u", ":", "n", "*", "e", "?">> >>,
             << <<Quote, "H", "|", "<", "e", ">", "r", "\\", "b">> >>)

\* The text of the page's first div.italic.mt-2, when it has one: the
\* indicator with a count, with a leading token that int() rejects, without
\* a leading count, and a div that is not the indicator.
PartialIndicators ==
    { <<>>, <<"3", "partial", "matches">>, <<"many", "partial", "matches">>,
      <<"1,000+", "partial", "matches">>, <<"partial", "matches">>,
      <<"12", "results">> }

SeqsUpTo(S, n) == UNION {[1..k -> S] : k \in 0..n}

\* The pages: every sequence of anchors, all of them in the open or all but
\* the first inside the comment.
Pages ==
    UNION { {[anchors |-> a, partial |-> i, shown |-> s] :
                i \in PartialIndicators,
                s \in {Len(a), IF Len(a) = 0 THEN 0 ELSE 1}} :
            a \in SeqsUpTo(AnchorKinds, MaxAnchors) }

BookFiction    == <<"book_fiction">>
BookNonfiction == <<"book_nonfiction">>
AaDownload     == <<"aa_download">>
English        == <<"en">>
French         == <<"fr">>

\* config['content'], config['access'], config['languages'].
AxisConfigs ==
    { [content   |-> [types |-> <<BookFiction, BookNonfiction>>, ignore |-> {}],
       access    |-> [types |-> <<AaDownload>>, ignore |-> {}],
       languages |-> [types |-> <<English, French>>, ignore |-> {}]],
      [content   |-> [types |-> <<BookFiction, BookNonfiction>>,
                      ignore |-> {BookNonfiction}],
       access    |-> [types |-> <<AaDownload>>, ignore |-> {AaDownload}],
       languages |-> [types |-> <<English, French>>,
                      ignore |-> {French, <<"de">>}]],
      [content   |-> [types |-> <<>>, ignore |-> {BookFiction}],
       access    |-> [types |-> <<AaDownload>>, ignore |-> {}],
       languages |-> [types |-> <<French>>, ignore |-> {French}]] }

\* config['search']: each key missing (<<>>) or set (<<value>>).
SearchConfigs ==
    { [index |-> <<>>, page |-> <<>>, display |-> <<>>, sort |-> <<>>],
      [index |-> << <<"meta">> >>, page |-> << <<"2">> >>,
       display |-> << <<>> >>, sort |-> << <<"newest">> >>] }

\* config['formats']['ignore']
FormatIgnores ==
    { {}, {PDF.key}, {EPUB.key, AZW3.key}, {<<"m","o","b","i">>} }

MakeConfig(defs, ignore, axes, search) ==
    [formats   |-> [definitions |-> defs, ignore |-> ignore],
     content   |-> axes.content,
     access    |-> axes.access,
     languages |-> axes.languages,
     search    |-> search]

DefaultAxes == CHOOSE a \in AxisConfigs : a.content.ignore = {BookNonfiction}
DefaultSearch == CHOOSE c \in SearchConfigs : c.index = <<>>

\* The configurations of the extraction and pipeline specifications.
Configs ==
    {MakeConfig(d, i, DefaultAxes, DefaultSearch) :
        d \in Catalogs, i \in FormatIgnores}

\* The configurations of the URL specification.
UrlConfigs ==
    UNION { {MakeConfig(d, i, a, c) : d \in Catalogs, i \in FormatIgnores} :
            a \in AxisConfigs, c \in SearchConfigs }

Queries == { <<>>, Dune, Lower(Dune) }

NoPage   == [anchors |-> <<>>, partial |-> <<>>, shown |-> 0]
NoConfig == MakeConfig(<<>>, {}, DefaultAxes, DefaultSearch)
PlIdle   == [pc |-> "idle"]

(***************************************************************************)
(* SpecRequest: one call of robust_request.                                *)
(***************************************************************************)
\* Values given as the retry_delay argument.
RetryDelays == {1, DefaultRetryDelay}

InitRequest ==
    /\ \E m \in Methods, n \in 0..MaxRetries, s \in BOOLEAN,
          d \in RetryDelays :
          rq = [robust_request_enter(m, n, s) EXCEPT !.retry_delay = d]
    /\ page = NoPage /\ config = NoConfig /\ query = <<>>
    /\ books = <<>> /\ url = <<>> /\ expc = "idle" /\ pl = PlIdle
    /\ all_text = <<>> /\ format_hit = <<>>

NextRequest == RqAttempt \/ RqUnsupported \/ RqExhausted

SpecRequest == InitRequest /\ [][NextRequest]_vars

(***************************************************************************)
(* SpecExtract: extract_search_results on every page and configuration.    *)
(***************************************************************************)
InitExtract ==
    /\ page \in Pages /\ config \in Configs
    /\ expc = "init"
    /\ rq = RqIdle /\ query = <<>> /\ books = <<>> /\ url = <<>>
    /\ pl = PlIdle /\ all_text = <<>> /\ format_hit = <<>>

Extract ==
    /\ expc = "init"
    /\ books' = extract_search_results(page, config)
    /\ expc' = "extracted"
    /\ UNCHANGED <<rq, page, config, query, url, pl, all_text, format_hit>>

SpecExtract == InitExtract /\ [][Extract]_vars

(***************************************************************************)
(* SpecUrl: construct_search_url on every query and configuration.         *)
(***************************************************************************)
InitUrl ==
    /\ config \in UrlConfigs /\ query \in Queries
    /\ expc = "init"
    /\ rq = RqIdle /\ page = NoPage /\ books = <<>> /\ url = <<>>
    /\ pl = PlIdle /\ all_text = <<>> /\ format_hit = <<>>

BuildUrl ==
    /\ expc = "init"
    /\ url' = construct_search_url(query, config)
    /\ expc' = "built"
    /\ UNCHANGED <<rq, page, config, query, books, pl, all_text, format_hit>>

SpecUrl == InitUrl /\ [][BuildUrl]_vars

(***************************************************************************)
(* SpecFormat: determine_format_type on every text and catalog.            *)
(***************************************************************************)

\* A definition whose key is written in upper case in the configuration
\* file; load_config takes the keys as they are written.
MOBI == [key |-> <<"M","O","B","I">>, priority |-> <<60>>,
         extension |-> ".mobi",
         content_type |-> "application/x-mobipocket-ebook",
         display_name |-> "MOBI"]

FormatCatalogs == Catalogs \cup { <<MOBI, PDF>>, <<PDF, MOBI>> }

\* The words the text of an anchor is made of.
FormatWords ==
    { <<"e","p","u","b">>, <<"E","P","U","B">>, <<"p","d","f">>,
      <<"a","z","w","3">>, <<"t","x","t">>, <<"M","O","B","I">>,
      <<"m","o","b","i">>, Dune }

FormatTexts == {Join(ws, <<" ">>) : ws \in SeqsUpTo(FormatWords, MaxWords)}

InitFormat ==
    /\ all_text \in FormatTexts
    /\ config \in {MakeConfig(d, {}, DefaultAxes, DefaultSearch) :
                      d \in FormatCatalogs}
    /\ expc = "init" /\ format_hit = <<>>
    /\ rq = RqIdle /\ page = NoPage /\ query = <<>> /\ books = <<>>
    /\ url = <<>> /\ pl = PlIdle

DetermineFormat ==
    /\ expc = "init"
    /\ format_hit' = determine_format_type(all_text,
                                           config.formats.definitions)
    /\ expc' = "typed"
    /\ UNCHANGED <<rq, page, config, query, books, url, pl, all_text>>

SpecFormat == InitFormat /\ [][DetermineFormat]_vars


(***************************************************************************)
(*        The pipeline: shared callees of both modes                       *)
(***************************************************************************)



(* ---- get_filename_from_headers and clean_filename ---- *)

\* The value of a content-disposition header is a sequence of tokens: the
\* double quote, the dot, the slash and "filename=" are tokens of their own,
\* every other token is a run of other characters.

\* re.search(r'filename="?([^"]+)"?', value): the positions at which the
\* pattern matches. After filename= an opening quote is taken when there is
\* one, and at least one character other than a quote must follow.
CaptureStart(v, i) == IF i + 1 <= Len(v) /\ v[i + 1] = Quote THEN i + 2
                      ELSE i + 1
MatchesAt(v, i) ==
    /\ v[i] = "filename="
    /\ CaptureStart(v, i) <= Len(v)
    /\ v[CaptureStart(v, i)] # Quote

\* match.group(1) of the leftmost match: everything up to the next quote or
\* the end of the value.
CaptureGroup(v) ==
    LET i == CHOOSE i \in 1..Len(v) :
                 MatchesAt(v, i) /\ \A j \in 1..(i - 1) : ~MatchesAt(v, j)
        b == CaptureStart(v, i)
        quotes == {k \in b..Len(v) : v[k] = Quote}
        e == IF quotes = {} THEN Len(v)
             ELSE (CHOOSE k \in quotes : \A l \in quotes : k <= l) - 1
    IN  SubSeq(v, b, e)

\* os.path.splitext(p)[0]: p up to its last dot, when that dot comes after
\* the last slash and some character other than a dot stands between the
\* two; p otherwise.
SplitextRoot(p) ==
    LET Last(c) == LET at == {k \in 1..Len(p) : p[k] = c} IN
                   IF at = {} THEN 0
                   ELSE CHOOSE k \in at : \A l \in at : l <= k
        sep == Last("/")
        dot == Last(".")
    IN  IF dot > sep /\ \E k \in (sep + 1)..(dot - 1) : p[k] # "."
        THEN SubSeq(p, 1, dot - 1)
        ELSE p

\* get_filename_from_headers(headers, format_info): cd is the header's
\* value, <<>> when the response has no content-disposition and <<value>>
\* otherwise. <<>> stands for None, <<name>> for a file name.
get_filename_from_headers(cd, format_info) ==
    IF cd = <<>> THEN <<>>
    ELSE IF \A i \in 1..Len(cd[1]) : ~MatchesAt(cd[1], i) THEN <<>>
    ELSE << SplitextRoot(CaptureGroup(cd[1])) \o <<format_info.extension>> >>

\* The characters of the class [\\/*?:"<>|].
HostileChars == {"\\", "/", "*", "?", ":", Quote, "<", ">", "|"}

\* clean_filename(text): re.sub deletes every character of the class (and,
\* first, a substitution that deletes the first such character only).
RECURSIVE clean_filename_first_only(_)
clean_filename_first_only(t) ==
    IF t = <<>> THEN <<>>
    ELSE IF Head(t) \in HostileChars THEN Tail(t)
    ELSE <<Head(t)>> \o clean_filename_first_only(Tail(t))
RECURSIVE clean_filename(_)
clean_filename(t) ==
    IF t = <<>> THEN <<>>
    ELSE IF Head(t) \in HostileChars THEN clean_filename(Tail(t))
    ELSE <<Head(t)>> \o clean_filename(Tail(t))

\* Lines 670-677 (and 824-830): the name from the probe's headers, else
\* f"{title} - {author}{extension}" from the selected book.
ResolveFilename(cd, book) ==
    LET filename == get_filename_from_headers(cd, book.format_info) IN
    IF filename # <<>> THEN filename[1]
    ELSE clean_filename(book.title) \o <<" - ">>
           \o clean_filename(book.author) \o <<book.format_info.extension>>

\* The content-disposition headers of the model: none; one without a file
\* name; a quoted name; a quoted name followed by filename*=; a name without
\* an extension; a name with two dots; an empty quoted name; an unquoted
\* name followed by further parameters; a name that is a media type.
ContentDispositions ==
    { <<>>,
      << <<"inline">> >>,
      << <<"attachment; ", "filename=", Quote, "b", ".", "pdf", Quote>> >>,
      << <<"attachment; ", "filename=", Quote, "b", ".", "pdf", Quote,
           "; filename*=UTF-8''b", ".", "pdf">> >>,
      << <<"attachment; ", "filename=", Quote, "book", Quote>> >>,
      << <<"attachment; ", "filename=", Quote, "a", ".", "b", ".", "pdf",
           Quote>> >>,
      << <<"attachment; ", "filename=", Quote, Quote>> >>,
      << <<"attachment; ", "filename=", "b", ".", "pdf",
           "; filename*=UTF-8''b", ".", "pdf">> >>,
      << <<"attachment; ", "filename=", Quote, "application", "/", "pdf",
           Quote>> >> }

(* ---- the header check of download_file ---- *)

\* A media type as tokens, the slash a token of its own.
MimeTokens(ct) ==
    CASE ct = "application/epub+zip" -> <<"application", "/", "epub+zip">>
      [] ct = "application/pdf" -> <<"application", "/", "pdf">>
      [] ct = "application/octet-stream" ->
             <<"application", "/", "octet-stream">>
      [] OTHER -> <<ct>>

\* str.lower() on the tokens of a header value.
LowerToken(t) ==
    CASE t = "Application" -> "application" [] t = "PDF" -> "pdf"
      [] t = "Filename=" -> "filename="
      [] OTHER -> t
LowerTokens(v) == [i \in 1..Len(v) |-> LowerToken(v[i])]

\* Lines 480-488: whether the warning "Content may not match expected
\* format" is logged. h holds the content-type and content-disposition
\* headers of the response, each <<>> when missing. (First, a check that
\* does not ask for a file name in the content-disposition.)
ContentMismatchWarningWithoutName(h, format_info) ==
    LET content_type == LowerTokens(Get(h.ct, <<>>))
        expected == MimeTokens(format_info.content_type)
        content_disp == LowerTokens(Get(h.cd, <<>>))
    IN  /\ ~Contains(content_type, expected)
        /\ ~Contains(content_type, <<"octet-stream">>)
        /\ ~Contains(content_disp, expected)
ContentMismatchWarning(h, format_info) ==
    LET content_type == LowerTokens(Get(h.ct, <<>>))
        expected == MimeTokens(format_info.content_type)
        content_disp == LowerTokens(Get(h.cd, <<>>))
    IN  /\ ~Contains(content_type, expected)
        /\ ~Contains(content_type, <<"octet-stream">>)
        /\ ~Contains(content_disp, expected)
        /\ Contains(content_disp, <<"filename=">>)

\* The content-type headers of a download response: none, the type of each
\* format, one in upper case, the generic binary type, an HTML page.
DownloadContentTypes ==
    { <<>>,
      << <<"application", "/", "pdf">> >>,
      << <<"application", "/", "epub+zip">> >>,
      << <<"Application", "/", "PDF">> >>,
      << <<"application", "/", "octet-stream">> >>,
      << <<"text", "/", "html", "; charset=utf-8">> >> }

\* The content-disposition headers of a download response: none, one
\* without a file name, one with a file name, one whose parameter name is
\* capitalised, one whose file name is a media type.
DownloadDispositions ==
    { <<>>,
      << <<"inline">> >>,
      << <<"attachment; ", "filename=", Quote, "b", ".", "pdf", Quote>> >>,
      << <<"attachment; ", "Filename=", Quote, "b", ".", "pdf", Quote>> >>,
      << <<"attachment; ", "filename=", Quote, "application", "/", "pdf",
           Quote>> >> }

DownloadHeaders == [ct : DownloadContentTypes, cd : DownloadDispositions]

\* The response does not declare the content type expected of the format.
DeclaredMismatch(h, format_info) ==
    ~Contains(LowerTokens(Get(h.ct, <<>>)),
              MimeTokens(format_info.content_type))

\* The pages a search response of the pipeline can hold, and its
\* configuration.
PipelinePages ==
    { [anchors |-> <<>>, partial |-> <<>>, shown |-> 0],
      [anchors |-> <<A4>>, partial |-> <<>>, shown |-> 1],
      [anchors |-> <<A2>>, partial |-> <<>>, shown |-> 1],
      [anchors |-> <<A2, A1>>, partial |-> <<>>, shown |-> 1],
      [anchors |-> <<A1, A3>>, partial |-> <<"3", "partial", "matches">>,
       shown |-> 2],
      [anchors |-> <<A6>>, partial |-> <<>>, shown |-> 1] }

PipelineConfig == MakeConfig(<<EPUB, PDF>>, {}, DefaultAxes, DefaultSearch)

\* The state of one run of download_book_by_query or interactive_mode.
\*   fn, interactive  the function running and its interactive argument
\*   pc               where the function is
\*   batch            interactive_mode: the queries of the line not yet taken
\*   selected         selected_book: <<>> before the selection, then <<book>>
\*   dl, chunks       download_file: where it is, chunks written so far
\*   file             the output file: none, partial, complete
\*   result           what the function returned, or that an exception left it
\* and, to state the claims (history of the current query, reset when the
\* next one is taken):
\*   qn               how many queries have been taken
\*   open             the queries whose pipeline has begun and not ended
\*   prompts          how many times the selection menu was shown
\*   reqs             the stages for which a request was issued
\*   cancelled        "Cancel download" was chosen
\*   failure          the stage at which a transport failure ended the query
\*   past             how the pipeline of each earlier query ended
\* and, of the current query too:
\*   probe            the content-disposition header of the HEAD response
\*   filename         the output file name: <<>> before it is settled
\*   dlh              <<>> before the download response is there, then
\*                    <<m>>: m tells whether its content-type differs from
\*                    the one expected of the selected format
\*   warned           the content mismatch warning was logged
\*   out              what the function has printed, in order
\*   failrq           the call of robust_request that returned None
\*   intr             what was going on when KeyboardInterrupt arrived
\*   menu, picked     the entries of the menu shown, and the position of the
\*                    entry the user chose (<<>> before the choice)
\*   fetched          the link the book page request was made for
\*   link             download_link: <<>> when the book page has none
PlStart(fn, interactive) ==
    [fn |-> fn, interactive |-> interactive, pc |-> "start", batch |-> <<>>,
     selected |-> <<>>, dl |-> "idle", chunks |-> 0, file |-> "none",
     result |-> "running", qn |-> 0, open |-> {}, prompts |-> 0,
     reqs |-> {}, cancelled |-> FALSE, failure |-> "none", past |-> <<>>,
     probe |-> <<>>, filename |-> <<>>, dlh |-> <<>>, warned |-> FALSE,
     out |-> <<>>, failrq |-> <<>>, intr |-> <<>>,
     menu |-> <<>>, picked |-> <<>>, fetched |-> <<>>, link |-> <<>>]

\* The history of the current query, cleared when a query is taken.
PlTakeQuery(p) ==
    [p EXCEPT !.qn = p.qn + 1, !.open = p.open \cup {p.qn + 1},
              !.selected = <<>>, !.dl = "idle", !.chunks = 0,
              !.file = "none", !.prompts = 0, !.reqs = {"search"},
              !.cancelled = FALSE, !.failure = "none", !.pc = "search",
              !.probe = <<>>, !.filename = <<>>, !.dlh = <<>>,
              !.warned = FALSE, !.out = <<>>, !.failrq = <<>>,
              !.menu = <<>>, !.picked = <<>>, !.fetched = <<>>,
              !.link = <<>>]

\* print(...): one more line on the terminal.
Say(p, line) == [p EXCEPT !.out = Append(p.out, line)]

\* What the caller prints when the search request returned None (lines
\* 594-597, 755-758): one line, whatever the attempts of the request were
\* (and, first, a report of one line per failed attempt).
SearchFailedReportPerAttempt(r) == [i \in 1..r.fails |-> "Search failed"]
SearchFailedReport(r) == <<"Search failed">>

\* `if not response:` after a call of robust_request that returned None:
\* the stage is noted as failed and the lines are printed.
StageFailed(p, stage, r, lines) ==
    [p EXCEPT !.failure = stage, !.failrq = <<r>>, !.out = p.out \o lines]

\* Lines 669-684 (824-830, 462-466): the probe has answered. The file name
\* is settled and announced, and download_file is entered, which announces
\* the download and issues its request.
ToDownload(p, cd) ==
    LET name == ResolveFilename(cd, p.selected[1]) IN
    [p EXCEPT !.probe = cd, !.filename = <<name>>,
              !.pc = "download", !.dl = "request",
              !.reqs = p.reqs \cup {"download"},
              !.out = p.out \o <<"Preparing to download",
                                 "Starting download">>]

\* display_selection_menu(books, ...): None without a prompt when the list is
\* empty (line 389); otherwise the menu is shown, whatever the length of the
\* list, and the user picks an index or "Cancel download" (None).
MenuShown(bs) == bs # <<>>

\* The value that stands for the None of the "Cancel download" choice.
Cancel == -1
MenuChoices(bs) == (0..(Len(bs) - 1)) \cup {Cancel}

\* Lines 415-433: the choices of the menu, in the order they are listed.
\* The entry of books[i] (i counted from 0) shows "[i+1]" and the book and
\* has the value i; the last entry is "Cancel download" with the value
\* None. (First, entries whose values count from the end of the list.)
MenuEntriesCountingFromEnd(bs) ==
    [k \in 1..(Len(bs) + 1) |->
        IF k <= Len(bs)
        THEN [label |-> <<k>>, book |-> <<bs[k]>>, value |-> Len(bs) - k]
        ELSE [label |-> <<>>, book |-> <<>>, value |-> Cancel]]
MenuEntries(bs) ==
    [k \in 1..(Len(bs) + 1) |->
        IF k <= Len(bs)
        THEN [label |-> <<k>>, book |-> <<bs[k]>>, value |-> k - 1]
        ELSE [label |-> <<>>, book |-> <<>>, value |-> Cancel]]

\* download_file, lines 467-478: the GET with stream=True has returned.
\* None gives False at once; otherwise the headers are compared (a warning
\* at most), the directories made, the file opened for writing and the body
\* streamed. (The content-length header is read for the progress display
\* only.)
\* (First, a download_file that returns False when the warning applies.)
DlRequestReturnRejectsMismatch ==
    /\ pl.pc = "download" /\ pl.dl = "request"
    /\ rq.state = "returned"
    /\ IF rq.result = "None"
       THEN pl' = [StageFailed(pl, "download", rq, <<>>) EXCEPT
                      !.dl = "failed"]
       ELSE \E h \in DownloadHeaders :
              LET info == pl.selected[1].format_info
                  w == ContentMismatchWarning(h, info)
                  m == DeclaredMismatch(h, info)
              IN  pl' = IF w
                        THEN [pl EXCEPT !.dl = "failed", !.dlh = <<m>>,
                                        !.warned = w]
                        ELSE [pl EXCEPT !.dl = "stream", !.file = "partial",
                                        !.dlh = <<m>>, !.warned = w]
    /\ rq' = RqIdle
    /\ UNCHANGED <<page, config, query, books, url, expc, all_text,
                   format_hit>>
DlRequestReturn ==
    /\ pl.pc = "download" /\ pl.dl = "request"
    /\ rq.state = "returned"
    /\ IF rq.result = "None"
       THEN pl' = [StageFailed(pl, "download", rq, <<>>) EXCEPT
                      !.dl = "failed"]
       ELSE \E h \in DownloadHeaders :
              LET info == pl.selected[1].format_info IN
              pl' = [pl EXCEPT
                       !.dl = "stream", !.file = "partial",
                       !.dlh = <<DeclaredMismatch(h, info)>>,
                       !.warned = ContentMismatchWarning(h, info)]
    /\ rq' = RqIdle
    /\ UNCHANGED <<page, config, query, books, url, expc, all_text,
                   format_hit>>

\* Lines 500-503: one more chunk of the body arrives and is written. (The
\* progress report of lines 505-529 only prints; its second else at line 523
\* is read as the else of `if total_size > 0`.)
DlChunk ==
    /\ pl.dl = "stream"
    /\ pl.chunks < MaxChunks
    /\ pl' = [pl EXCEPT !.chunks = pl.chunks + 1]
    /\ UNCHANGED <<rq, page, config, query, books, url, expc, all_text,
                   format_hit>>

\* Line 500: iter_content raises while the body is read (the connection
\* drops, a read times out). Nothing in download_file catches it: the
\* exception leaves download_file, the file keeps what was written.
DlStreamError ==
    /\ pl.dl = "stream"
    /\ pl' = [pl EXCEPT !.dl = "raised", !.failure = "stream"]
    /\ UNCHANGED <<rq, page, config, query, books, url, expc, all_text,
                   format_hit>>

\* Lines 531-538: the body is complete; download_file returns True.
DlFinish ==
    /\ pl.dl = "stream"
    /\ pl' = Say([pl EXCEPT !.dl = "ok", !.file = "complete"],
                 "Download completed")
    /\ UNCHANGED <<rq, page, config, query, books, url, expc, all_text,
                   format_hit>>

\* extract_fast_download_link(html_content): of the a[href^="/fast_download/"]
\* of the book page, in document order, the href of the first whose text
\* holds "fast" in any case of letters, else the href of the first; <<>>
\* stands for None, <<href>> for a link.
extract_fast_download_link(links) ==
    LET fast == {i \in 1..Len(links) :
                    Contains(Lower(links[i].text), <<"f","a","s","t">>)}
    IN  IF fast # {}
        THEN <<links[CHOOSE i \in fast : \A j \in fast : i <= j].href>>
        ELSE IF links # <<>> THEN <<links[1].href>>
        ELSE <<>>

\* The book pages of the model, as their fast_download anchors: none; one
\* fast link; a fast link after another anchor; two anchors neither of
\* which says fast.
FastText == <<"F","a","s","t">>
SlowText == <<"S","l","o","w">>
BookPages ==
    { <<>>,
      <<[href |-> "/fast_download/a", text |-> FastText]>>,
      <<[href |-> "/fast_download/b", text |-> SlowText],
        [href |-> "/fast_download/a", text |-> FastText]>>,
      <<[href |-> "/fast_download/a", text |-> SlowText],
        [href |-> "/fast_download/b", text |-> SlowText]>> }

\* A call of robust_request from the pipeline for one of its stages.
StageRequest(stage) ==
    CASE stage = "search" ->
           robust_request_enter("get", DefaultRetries, TRUE)
      [] stage = "detail" ->
           robust_request_enter("get", DefaultRetries, TRUE)
      [] stage = "head" ->
           robust_request_enter("head", DefaultRetries, TRUE)
      [] stage = "download" ->
           robust_request_enter("get", DefaultRetries, FALSE)

(***************************************************************************)
(* download_book_by_query                                                  *)
(***************************************************************************)

\* Lines 617-639 with a book selected: the request for the book page is made.
SToDetail(p, book) ==
    [p EXCEPT !.selected = <<book>>, !.pc = "detail",
              !.fetched = <<book.link>>,
              !.reqs = p.reqs \cup {"detail"}]

\* return False / return True.
SReturn(p, value) ==
    [p EXCEPT !.pc = "done", !.result = value, !.open = {}]

\* Lines 617-621, automatic mode: the first result.
AutoSelect(bs, q) == bs[1]

\* Lines 578-592: the search URL is built and requested.
SSearch ==
    /\ pl.fn = "single" /\ pl.pc = "start"
    /\ url' = construct_search_url(query, config)
    /\ rq' = StageRequest("search")
    /\ pl' = Say(PlTakeQuery(pl), "Searching")
    /\ UNCHANGED <<page, config, query, books, expc, all_text, format_hit>>

\* Lines 594-639: the search request has returned. None: return False.
\* Otherwise the page is parsed; no books: return False; interactive: the
\* menu is called; automatic: books[0] is selected and its page requested.
SSearchReturn ==
    /\ pl.fn = "single" /\ pl.pc = "search"
    /\ rq.state = "returned"
    /\ IF rq.result = "None"
       THEN /\ pl' = SReturn(StageFailed(pl, "search", rq,
                                         SearchFailedReport(rq)), "False")
            /\ rq' = RqIdle
            /\ UNCHANGED <<page, books>>
       ELSE \E pg \in PipelinePages :
              LET bs == extract_search_results(pg, config) IN
              /\ page' = pg
              /\ books' = bs
              /\ IF bs = <<>>
                 THEN /\ pl' = SReturn(Say(pl, "No books found"), "False")
                      /\ rq' = RqIdle
                 ELSE IF pl.interactive
                 THEN /\ pl' = [pl EXCEPT !.pc = "menu",
                                  !.menu = MenuEntries(bs),
                                  !.prompts = IF MenuShown(bs)
                                              THEN pl.prompts + 1
                                              ELSE pl.prompts]
                      /\ rq' = RqIdle
                 ELSE /\ pl' = SToDetail(pl, AutoSelect(bs, query))
                      /\ rq' = StageRequest("detail")
    /\ UNCHANGED <<config, query, url, expc, all_text, format_hit>>

\* Lines 613-617 and 623-639: the menu has been answered.
SMenuChoice ==
    /\ pl.fn = "single" /\ pl.pc = "menu"
    /\ \E e \in 1..Len(pl.menu) :
         LET c == pl.menu[e].value
             p == [pl EXCEPT !.picked = <<e>>]
         IN  /\ c \in MenuChoices(books)
             /\ IF c = Cancel
                THEN /\ pl' = SReturn([p EXCEPT !.cancelled = TRUE], "False")
                     /\ rq' = rq
                ELSE /\ pl' = SToDetail(p, books[c + 1])
                     /\ rq' = StageRequest("detail")
    /\ UNCHANGED <<page, config, query, books, url, expc, all_text,
                   format_hit>>

\* Lines 641-663: the book page request has returned. None: return False;
\* no fast-download link on the page: return False; otherwise the HEAD probe.
\* (First, a version that probes whether or not the page has a link.)
SDetailReturnProbesWithoutLink ==
    /\ pl.fn = "single" /\ pl.pc = "detail"
    /\ rq.state = "returned"
    /\ IF rq.result = "None"
       THEN /\ pl' = SReturn(StageFailed(pl, "detail", rq,
                               <<"Failed to access book details">>), "False")
            /\ rq' = RqIdle
       ELSE \E bp \in BookPages :
              /\ pl' = [pl EXCEPT !.pc = "head",
                                  !.link = extract_fast_download_link(bp),
                                  !.reqs = pl.reqs \cup {"head"}]
              /\ rq' = StageRequest("head")
    /\ UNCHANGED <<page, config, query, books, url, expc, all_text,
                   format_hit>>
SDetailReturn ==
    /\ pl.fn = "single" /\ pl.pc = "detail"
    /\ rq.state = "returned"
    /\ IF rq.result = "None"
       THEN /\ pl' = SReturn(StageFailed(pl, "detail", rq,
                               <<"Failed to access book details">>), "False")
            /\ rq' = RqIdle
       ELSE \E bp \in BookPages :
              LET download_link == extract_fast_download_link(bp) IN
              IF download_link # <<>>
              THEN /\ pl' = [pl EXCEPT !.pc = "head",
                                       !.link = download_link,
                                       !.reqs = pl.reqs \cup {"head"}]
                   /\ rq' = StageRequest("head")
              ELSE /\ pl' = SReturn(Say(pl, "No download link found"),
                                    "False")
                   /\ rq' = RqIdle
    /\ UNCHANGED <<page, config, query, books, url, expc, all_text,
                   format_hit>>

\* Lines 665-684 and 467-474: the probe has returned. None: return False;
\* otherwise the file name is settled and download_file called, which
\* requests the body.
SHeadReturn ==
    /\ pl.fn = "single" /\ pl.pc = "head"
    /\ rq.state = "returned"
    /\ IF rq.result = "None"
       THEN /\ pl' = SReturn(StageFailed(pl, "head", rq,
                               <<"Failed to prepare download">>), "False")
            /\ rq' = RqIdle
       ELSE /\ \E cd \in ContentDispositions : pl' = ToDownload(pl, cd)
            /\ rq' = StageRequest("download")
    /\ UNCHANGED <<page, config, query, books, url, expc, all_text,
                   format_hit>>

\* Lines 684-692: download_file is over. True: return True; False: return
\* False; an exception of download_file leaves download_book_by_query too.
SDownloadReturn ==
    /\ pl.fn = "single" /\ pl.pc = "download"
    /\ pl.dl \in {"ok", "failed", "raised"}
    /\ pl' = CASE pl.dl = "ok" ->
                    SReturn(Say(pl, "Successfully downloaded"), "True")
               [] pl.dl = "failed" ->
                    SReturn(Say(pl, "Download failed"), "False")
               [] pl.dl = "raised" -> SReturn(pl, "exception")
    /\ UNCHANGED <<rq, page, config, query, books, url, expc, all_text,
                   format_hit>>

InitSingle ==
    /\ pl \in {PlStart("single", i) : i \in BOOLEAN}
    /\ query \in Queries \ {<<>>}
    /\ config = PipelineConfig
    /\ rq = RqIdle /\ page = NoPage /\ books = <<>> /\ url = <<>>
    /\ expc = "idle" /\ all_text = <<>> /\ format_hit = <<>>

(***************************************************************************)
(* interactive_mode                                                        *)
(***************************************************************************)

\* What input() returns, stripped: a word that ends the loop, an empty
\* line, or a query.
QuitLine  == <<"quit">>
InputLines == { QuitLine, <<>>, Dune }

\* Line 737: the queries of a line. input() returns one line, so the list
\* holds the line, or nothing when the line is empty.
QueriesOf(line) == IF line = <<>> THEN <<>> ELSE <<line>>

\* How the pipeline of the current query ended.
Disposition(p) ==
    IF p.cancelled THEN "cancelled"
    ELSE IF p.failure # "none" THEN p.failure
    ELSE IF p.dl = "ok" THEN "downloaded"
    ELSE "nothing"

\* The locals of one turn of the for loop (selected_book, head_response,
\* filename, and what download_file held) once the turn is over: they are
\* not read again before the next turn assigns them.
LocalsGone(p) ==
    [p EXCEPT !.selected = <<>>, !.probe = <<>>, !.filename = <<>>,
              !.dlh = <<>>, !.warned = FALSE, !.chunks = 0,
              !.menu = <<>>, !.picked = <<>>, !.fetched = <<>>,
              !.link = <<>>]

\* `continue`, and the end of the loop body: the pipeline of the query is
\* over and the for loop goes on.
LContinue(p) ==
    [LocalsGone(p) EXCEPT !.pc = "for", !.open = p.open \ {p.qn},
                          !.past = Append(p.past, Disposition(p))]

\* An exception other than KeyboardInterrupt leaves the loop and
\* interactive_mode (line 836 catches KeyboardInterrupt only).
LCrash(p) ==
    [LocalsGone(p) EXCEPT !.pc = "crashed", !.result = "exception",
                          !.open = p.open \ {p.qn},
                          !.past = Append(p.past, Disposition(p))]

\* Line 730-737: a line is read. exit, quit or q ends the loop (return 0).
LReadInput ==
    /\ pl.fn = "loop" /\ pl.pc = "input"
    /\ \E line \in InputLines :
         /\ (line # QuitLine /\ line # <<>>) => pl.qn < MaxQueries
         /\ pl' = IF line = QuitLine
                  THEN Say([pl EXCEPT !.pc = "exited", !.result = "0"],
                           "Exiting...")
                  ELSE [pl EXCEPT !.pc = "for", !.batch = QueriesOf(line)]
    /\ UNCHANGED <<rq, page, config, query, books, url, expc, all_text,
                   format_hit>>

\* Lines 739-753: the for loop takes its next query and requests the search
\* page, or is over and the while loop goes back to input().
LForNext ==
    /\ pl.fn = "loop" /\ pl.pc = "for"
    /\ IF pl.batch = <<>>
       THEN /\ pl' = [pl EXCEPT !.pc = "input"]
            /\ UNCHANGED <<rq, query, url>>
       ELSE /\ query' = Head(pl.batch)
            /\ url' = construct_search_url(Head(pl.batch), config)
            /\ rq' = StageRequest("search")
            /\ pl' = Say(PlTakeQuery([pl EXCEPT !.batch = Tail(pl.batch)]),
                         "Processing query")
    /\ UNCHANGED <<page, config, books, expc, all_text, format_hit>>

\* Lines 755-770: the search request has returned. None: continue. No
\* books: continue. Otherwise the menu is called.
LSearchReturn ==
    /\ pl.fn = "loop" /\ pl.pc = "search"
    /\ rq.state = "returned"
    /\ IF rq.result = "None"
       THEN /\ pl' = LContinue(StageFailed(pl, "search", rq,
                                           SearchFailedReport(rq)))
            /\ UNCHANGED <<page, books>>
       ELSE \E pg \in PipelinePages :
              LET bs == extract_search_results(pg, config) IN
              /\ page' = pg
              /\ books' = bs
              /\ pl' = IF bs = <<>>
                       THEN LContinue(Say(pl, "No books found"))
                       ELSE [pl EXCEPT !.pc = "menu",
                                !.menu = MenuEntries(bs),
                                !.prompts = IF MenuShown(bs)
                                            THEN pl.prompts + 1
                                            ELSE pl.prompts]
    /\ rq' = RqIdle
    /\ UNCHANGED <<config, query, url, expc, all_text, format_hit>>

\* Lines 771-787: the answer to the menu. None: continue; otherwise the
\* book is selected and its page requested.
LMenuCancelFallsThrough(p, c, bs) ==
    [p EXCEPT !.selected = <<bs[1]>>, !.pc = "detail",
              !.cancelled = (c = Cancel),
              !.fetched = <<bs[1].link>>,
              !.reqs = p.reqs \cup {"detail"},
              !.out = Append(p.out, "Selected")]
LAfterMenu(p, c, bs) ==
    IF c = Cancel
    THEN LContinue(Say([p EXCEPT !.cancelled = TRUE], "Download cancelled"))
    ELSE [p EXCEPT !.selected = <<bs[c + 1]>>, !.pc = "detail",
                   !.fetched = <<bs[c + 1].link>>,
                   !.reqs = p.reqs \cup {"detail"},
                   !.out = Append(p.out, "Selected")]

LMenuChoice ==
    /\ pl.fn = "loop" /\ pl.pc = "menu"
    /\ \E e \in 1..Len(pl.menu) :
         LET c == pl.menu[e].value IN
         /\ c \in MenuChoices(books)
         /\ pl' = LAfterMenu([pl EXCEPT !.picked = <<e>>], c, books)
         /\ rq' = IF pl'.pc = "detail" THEN StageRequest("detail") ELSE rq
    /\ UNCHANGED <<page, config, query, books, url, expc, all_text,
                   format_hit>>

\* Lines 789-810: the book page request has returned. None: continue; no
\* link: continue; otherwise the HEAD probe.
LDetailReturn ==
    /\ pl.fn = "loop" /\ pl.pc = "detail"
    /\ rq.state = "returned"
    /\ IF rq.result = "None"
       THEN /\ pl' = LContinue(StageFailed(pl, "detail", rq,
                                  <<"Failed to access book page">>))
            /\ rq' = RqIdle
       ELSE \E bp \in BookPages :
              LET download_link == extract_fast_download_link(bp) IN
              IF download_link # <<>>
              THEN /\ pl' = [pl EXCEPT !.pc = "head",
                                       !.link = download_link,
                                       !.reqs = pl.reqs \cup {"head"}]
                   /\ rq' = StageRequest("head")
              ELSE /\ pl' = LContinue(Say(pl, "No download link found"))
                   /\ rq' = RqIdle
    /\ UNCHANGED <<page, config, query, books, url, expc, all_text,
                   format_hit>>

\* Lines 812-830 and 467-474: the probe has returned. None: continue;
\* otherwise the file name is settled and download_file called.
LHeadReturnWithoutWaiting ==
    /\ pl.fn = "loop" /\ pl.pc = "head"
    /\ rq.state = "returned"
    /\ IF rq.result = "None"
       THEN /\ pl' = LContinue(StageFailed(pl, "head", rq,
                                  <<"Failed to prepare download">>))
            /\ rq' = RqIdle
       ELSE /\ \E cd \in ContentDispositions :
                 pl' = LContinue(ToDownload(pl, cd))
            /\ rq' = StageRequest("download")
    /\ UNCHANGED <<page, config, query, books, url, expc, all_text,
                   format_hit>>
LHeadReturn ==
    /\ pl.fn = "loop" /\ pl.pc = "head"
    /\ rq.state = "returned"
    /\ IF rq.result = "None"
       THEN /\ pl' = LContinue(StageFailed(pl, "head", rq,
                                  <<"Failed to prepare download">>))
            /\ rq' = RqIdle
       ELSE /\ \E cd \in ContentDispositions : pl' = ToDownload(pl, cd)
            /\ rq' = StageRequest("download")
    /\ UNCHANGED <<page, config, query, books, url, expc, all_text,
                   format_hit>>

\* Lines 830-834: download_file is over: a message either way, and the loop
\* body ends. An exception of download_file is not caught by the loop.
LAfterDownload(p) ==
    CASE p.dl = "raised" -> LCrash(p)
      [] p.dl = "ok" -> LContinue(Say(p, "Successfully downloaded"))
      [] p.dl = "failed" -> LContinue(Say(p, "Download failed"))

\* Lines 728 and 836-839: KeyboardInterrupt. Python raises it in the main
\* thread at the point the thread has reached, be it inside input(), the
\* menu, a request of robust_request (whose except clauses do not match
\* it), the sleep between two attempts or the loop that writes the body;
\* nothing on the way to the except clause of line 836 catches it. That
\* clause prints "Exiting..." and interactive_mode returns 0. What was in
\* flight is abandoned as it is: a spinner is not stopped, a file that was
\* being written is closed by its with statement and keeps its part of
\* the body.
LInterrupted(p, r) ==
    [LocalsGone(p) EXCEPT
              !.pc = "exited", !.result = "0",
              !.intr = <<[pc |-> p.pc, rq |-> r.state, spin |-> r.spin,
                          dl |-> p.dl, file |-> p.file]>>,
              !.dl = IF p.dl \in {"request", "stream"} THEN "interrupted"
                     ELSE p.dl,
              !.open = {},
              !.past = IF p.open = {} THEN p.past
                       ELSE Append(p.past, "interrupted"),
              !.out = Append(p.out, "Exiting...")]

LKeyboardInterrupt ==
    /\ pl.fn = "loop"
    /\ pl.pc \in {"input", "for", "search", "menu", "detail", "head",
                  "download"}
    /\ pl.dl # "raised"
    /\ pl' = LInterrupted(pl, rq)
    /\ rq' = RqIdle
    /\ UNCHANGED <<page, config, query, books, url, expc, all_text,
                   format_hit>>

LDownloadReturn ==
    /\ pl.fn = "loop" /\ pl.pc = "download"
    /\ pl.dl \in {"ok", "failed", "raised"}
    /\ pl' = LAfterDownload(pl)
    /\ UNCHANGED <<rq, page, config, query, books, url, expc, all_text,
                   format_hit>>

InitLoop ==
    /\ pl = [PlStart("loop", TRUE) EXCEPT !.pc = "input"]
    /\ config = PipelineConfig
    /\ query = <<>>
    /\ rq = RqIdle /\ page = NoPage /\ books = <<>> /\ url = <<>>
    /\ expc = "idle" /\ all_text = <<>> /\ format_hit = <<>>

(***************************************************************************)
(* SpecPipeline: one run of download_book_by_query, interactive or not, or *)
(* one run of interactive_mode.                                            *)
(***************************************************************************)
InitPipeline == InitSingle \/ InitLoop

NextPipeline ==
    \/ SSearch \/ SSearchReturn \/ SMenuChoice \/ SDetailReturn
    \/ SHeadReturn \/ SDownloadReturn
    \/ LReadInput \/ LForNext \/ LSearchReturn \/ LMenuChoice
    \/ LDetailReturn \/ LHeadReturn \/ LDownloadReturn
    \/ LKeyboardInterrupt
    \/ RqAttempt
    \/ DlRequestReturn \/ DlChunk \/ DlStreamError \/ DlFinish

SpecPipeline == InitPipeline /\ [][NextPipeline]_vars

(***************************************************************************)
(* SpecHeaderCheck: the header check of download_file (lines 480-488) on   *)
(* every response and format.                                              *)
(***************************************************************************)
HeaderCheckFormats == {EPUB, PDF, AZW, AZW3, MOBI}

InitHeaderCheck ==
    /\ pl \in {[fn |-> "download_file", pc |-> "response", headers |-> h,
                 format_info |-> f, warned |-> FALSE] :
                    h \in DownloadHeaders, f \in HeaderCheckFormats}
    /\ config = PipelineConfig /\ query = <<>>
    /\ rq = RqIdle /\ page = NoPage /\ books = <<>> /\ url = <<>>
    /\ expc = "idle" /\ all_text = <<>> /\ format_hit = <<>>

CheckHeaders ==
    /\ pl.fn = "download_file" /\ pl.pc = "response"
    /\ pl' = [pl EXCEPT !.pc = "checked",
                        !.warned = ContentMismatchWarning(pl.headers,
                                                          pl.format_info)]
    /\ UNCHANGED <<rq, page, config, query, books, url, expc, all_text,
                   format_hit>>

SpecHeaderCheck == InitHeaderCheck /\ [][CheckHeaders]_vars

(***************************************************************************)
(*                               Claims                                    *)
(***************************************************************************)

\* C1: one call of robust_request with retries = N makes at most N transport
\* attempts, whatever the attempts end in, and when all N attempts fail the
\* call has returned None.
C1_RetryBound ==
    /\ rq.calls <= rq.retries
    /\ (rq.retries > 0 /\ rq.fails = rq.retries) =>
           (rq.state = "returned" /\ rq.result = "None")
    /\ (rq.state = "returned" /\ rq.fails = rq.retries) => rq.result = "None"

\* A call with retries = 3 whose three attempts all failed and which returned
\* None.
C1_Witness ==
    /\ rq.state = "returned" /\ rq.retries = 3
    /\ rq.calls = 3 /\ rq.fails = 3 /\ rq.result = "None"

\* C2: robust_request never raises to its caller, for every value of the
\* method argument: no call ends by an exception leaving the function.
C2_NeverRaises == rq.state # "raised"

(* ---- the claims about extract_search_results ---- *)

Extracted == expc = "extracted"

\* C5: the list returned by extract_search_results is ordered by
\* (-format_priority, original_index): of two adjacent candidates the first
\* has the higher priority, or the same priority and the lower index.
C5_RankedOrder ==
    Extracted =>
      \A i \in 1..(Len(books) - 1) :
         \/ books[i].format_priority > books[i + 1].format_priority
         \/ /\ books[i].format_priority = books[i + 1].format_priority
            /\ books[i].original_index < books[i + 1].original_index

\* Scenario A: anchors EPUB(100), PDF(80), EPUB(100) at positions 0, 1, 2 are
\* returned in the order [pos0, pos2, pos1].
C5_Witness ==
    /\ Extracted
    /\ Len(page.anchors) = 3 /\ Len(books) = 3
    /\ [i \in 1..3 |-> books[i].original_index] = <<0, 2, 1>>
    /\ [i \in 1..3 |-> books[i].format_priority] = <<100, 100, 80>>

\* Some key of the catalog occurs in the anchor's lower-cased text.
Recognizable(a, cfg) ==
    \E k \in CatalogKeys(cfg.formats.definitions) :
        Contains(Lower(AnchorText(a)), k)

\* C6: every candidate returned by extract_search_results has a format key
\* that is defined in the catalog and is not in the format ignore list, and
\* comes from an anchor in whose text a catalog key occurs.
C6_FilterInvariant ==
    Extracted =>
      \A i \in 1..Len(books) :
         /\ books[i].format_key \in CatalogKeys(config.formats.definitions)
         /\ books[i].format_key \notin config.formats.ignore
         /\ books[i].original_index + 1 \in 1..Len(page.anchors)
         /\ Recognizable(page.anchors[books[i].original_index + 1], config)

\* A page of which one anchor is dropped for an unrecognised format, one for
\* an ignored format, and one is returned.
C6_Witness ==
    /\ Extracted
    /\ Len(books) = 1 /\ Len(page.anchors) = 3
    /\ \E i \in 1..3 : ~Recognizable(page.anchors[i], config)
    /\ \E i \in 1..3 :
          /\ Recognizable(page.anchors[i], config)
          /\ \A k \in CatalogKeys(config.formats.definitions) :
                Contains(Lower(AnchorText(page.anchors[i])), k)
                    => k \in config.formats.ignore

\* The page has a div.italic.mt-2 whose text contains "partial matches".
CarriesPartialIndicator(p) ==
    \E i \in 1..(Len(p.partial) - 1) :
        p.partial[i] = "partial" /\ p.partial[i + 1] = "matches"

\* C12: whenever the results page carries the "partial matches" indicator,
\* every candidate returned by extract_search_results has is_partial_match
\* true, and all candidates of one extraction carry the same flag value.
C12_PartialFlagOnEveryCandidate ==
    Extracted =>
      /\ CarriesPartialIndicator(page) =>
            \A i \in 1..Len(books) : books[i].is_partial_match
      /\ \A i, j \in 1..Len(books) :
            books[i].is_partial_match = books[j].is_partial_match

\* The indicator is there and int() rejects its leading token.
MalformedCount(p) ==
    CarriesPartialIndicator(p) /\ IntOf(p.partial[1]) = <<>>

\* C13: an indicator whose leading token is not an integer, or which has no
\* leading count, does not make extraction fail: the count is None and the
\* list returned is the one returned for the same page without the
\* indicator, in the same order and with the same fields.
C13_MalformedCountIsNoCount ==
    (Extracted /\ MalformedCount(page)) =>
      /\ PartialMatchesCount(page.partial) = <<>>
      /\ books = extract_search_results([page EXCEPT !.partial = <<>>],
                                        config)

\* A page with a malformed indicator from which two candidates were
\* extracted and ranked, the later anchor first.
C13_Witness ==
    /\ Extracted /\ MalformedCount(page)
    /\ Len(books) = 2
    /\ books[1].original_index > books[2].original_index

(* ---- the claim about determine_format_type ---- *)

\* The first definition, in catalog order, whose key occurs in the text
\* when the case of letters is ignored on both sides; <<>> when none does.
FirstKeyIgnoringCase(t, defs) ==
    LET hits == {i \in 1..Len(defs) : Contains(Lower(t), Lower(defs[i].key))}
    IN  IF hits = {} THEN <<>>
        ELSE <<defs[CHOOSE i \in hits : \A j \in hits : i <= j]>>

\* C17: determine_format_type returns the first definition, in the catalog's
\* iteration order, whose key occurs as a case-insensitive substring of the
\* text, also when a later key occurs too, and returns (None, None) when no
\* key occurs.
C17_FirstCaseInsensitiveMatch ==
    expc = "typed" =>
        format_hit = FirstKeyIgnoringCase(all_text,
                                          config.formats.definitions)

(* ---- the claim about construct_search_url ---- *)

\* The URL read back as a server reads it: the tokens after "/search?" split
\* at every "&", each part split at its first "=".
RECURSIVE SplitOn(_, _)
SplitOn(s, sep) ==
    IF \A i \in 1..Len(s) : s[i] # sep THEN <<s>>
    ELSE LET i == CHOOSE i \in 1..Len(s) :
                     s[i] = sep /\ \A j \in 1..(i - 1) : s[j] # sep
         IN  <<SubSeq(s, 1, i - 1)>> \o SplitOn(SubSeq(s, i + 1, Len(s)), sep)

UrlParts(u) ==
    IF Len(u) <= Len(BASE_URL) + 1 THEN <<>>
    ELSE SplitOn(SubSeq(u, Len(BASE_URL) + 2, Len(u)), "&")

\* The values the URL gives for one parameter name, in order.
ParamValues(u, key) ==
    LET parts == UrlParts(u)
        idx == {i \in 1..Len(parts) :
                   Len(parts[i]) >= 2 /\ parts[i][1] = key /\ parts[i][2] = "="}
    IN  {<<i, SubSeq(parts[i], 3, Len(parts[i]))>> : i \in idx}

Occurrences(u, key, value) ==
    Cardinality({pv \in ParamValues(u, key) : pv[2] = value})

AxisComplete(u, key, types, ignore) ==
    /\ Cardinality(ParamValues(u, key)) = Len(types)
    /\ \A i \in 1..Len(types) :
          LET item == types[i] IN
          IF item \in ignore
          THEN /\ Occurrences(u, key, <<"anti__">> \o item) = 1
               /\ Occurrences(u, key, item) = 0
          ELSE /\ Occurrences(u, key, item) = 1
               /\ Occurrences(u, key, <<"anti__">> \o item) = 0

MatchesQuery(b, q) ==
    \/ Contains(Lower(b.title), Lower(q))
    \/ Contains(Lower(b.author), Lower(q))

FirstMatchElseFirst(bs, q) ==
    LET hits == {i \in 1..Len(bs) : MatchesQuery(bs[i], q)} IN
    IF hits = {} THEN bs[1]
    ELSE bs[CHOOSE i \in hits : \A j \in hits : i <= j]

\* C3: in automatic mode with several ranked candidates the selected one is
\* the first in ranked order whose title or author contains the query as a
\* case-insensitive substring, and the first candidate only when none does.
C3_AutoSelectsFirstMatch ==
    (/\ pl.fn = "single" /\ ~pl.interactive
     /\ Len(books) > 1 /\ pl.selected # <<>>)
      => pl.selected[1] = FirstMatchElseFirst(books, query)

\* C4: when extraction yields exactly one candidate, no selection menu is
\* shown, in interactive mode as in automatic mode, and that candidate is
\* the one selected.
C4_SingleCandidateNoPrompt ==
    (pl.fn \in {"single", "loop"} /\ Len(books) = 1) =>
        /\ pl.prompts = 0
        /\ pl.pc # "menu"
        /\ pl.selected # <<>> => pl.selected[1] = books[1]


(* ---- the claims about the interactive loop ---- *)

\* C8: in the interactive loop a transport failure in any stage of a query
\* (search, book page, HEAD probe, download, the streaming of the body
\* included) aborts only that query: the loop is not left by it.
C8_TransportFailureAbortsOnlyQuery ==
    (pl.fn = "loop" /\ pl.failure # "none") => pl.pc # "crashed"

\* C9: "Cancel download" at the menu aborts only the rest of the current
\* query: no book is selected, no book page, probe or download request is
\* issued for it and no file is written, single-query mode returns False,
\* and the interactive loop is not left: the cancel takes it to the next
\* turn of its for loop, where the next query is read and processed.
C9_CancelState ==
    pl.cancelled =>
      /\ pl.selected = <<>>
      /\ pl.reqs = {"search"}
      /\ rq.state = "idle" /\ pl.dl = "idle"
      /\ pl.file = "none" /\ pl.chunks = 0
      /\ pl.fn = "single" => (pl.pc = "done" /\ pl.result = "False")
      /\ pl.fn = "loop" => (/\ pl.pc \in {"for", "input", "exited"}
                            /\ pl.result \in {"running", "0"}
                            /\ pl.past[pl.qn] = "cancelled")

C9_CancelAbortsOnlyQuery ==
    /\ []C9_CancelState
    /\ [][(pl.fn = "loop" /\ ~pl.cancelled /\ pl'.cancelled)
            => (pl'.pc = "for" /\ pl'.result = "running")]_vars
    /\ [][(pl.fn = "loop" /\ pl.cancelled /\ pl'.qn = pl.qn + 1)
            => (pl'.pc = "search" /\ rq'.state = "loop"
                /\ pl'.reqs = {"search"})]_vars

\* The loop after a cancelled first query: the second query was read and
\* its book downloaded.
C9_Witness ==
    /\ pl.fn = "loop" /\ pl.pc = "input"
    /\ pl.past = <<"cancelled", "downloaded">>

\* C10: the interactive loop handles its queries strictly one at a time. At
\* most one pipeline is open; input() is reached only when none is, every
\* earlier query having ended; and every request in flight, every menu and
\* every download belongs to the one open query, the last one taken.
C10_OneQueryAtATime ==
    pl.fn = "loop" =>
      /\ Cardinality(pl.open) <= 1
      /\ Len(pl.past) = pl.qn - Cardinality(pl.open)
      /\ pl.pc \in {"input", "for", "exited", "crashed"} =>
            /\ pl.open = {}
            /\ rq.state = "idle"
            /\ pl.dl \notin {"request", "stream"}
      /\ (rq.state # "idle" \/ pl.dl \in {"request", "stream"}
            \/ pl.pc = "menu") => pl.open = {pl.qn}

\* The second query's search request in flight after the first query's
\* download has ended.
C10_Witness ==
    /\ pl.fn = "loop" /\ pl.qn = 2 /\ pl.pc = "search"
    /\ rq.state = "loop" /\ rq.fails = 1
    /\ pl.past = <<"downloaded">>

(* ---- the claims about the retry policy of robust_request ---- *)

\* The ways an attempt fails: the three except clauses, HTTPError being a
\* RequestException raised by raise_for_status.
FailureOutcomes == Outcomes \ {"ok"}

\* C19: the retry policy of robust_request is the same for every failure
\* category. An attempt that ends in a timeout, a connection failure, another
\* request error or an HTTP error status consumes one attempt; when attempts
\* remain the call sleeps once and stays in its loop, where the next attempt
\* is due; when none remains the call returns None at once. A response is
\* returned only by an attempt that ended without error, so a response with
\* an HTTP error status never reaches the caller.
C19_UniformRetryPolicy ==
    /\ [](rq.result = "response" => (rq.state = "returned" /\ rq.last = "ok"))
    /\ []((rq.state = "loop" /\ rq.fails > 0) => RqLoopHasNext(rq))
    /\ [][(rq'.calls = rq.calls + 1 /\ rq'.last \in FailureOutcomes) =>
            /\ rq'.fails = rq.fails + 1
            /\ rq'.attempt = rq.attempt + 1
            /\ IF rq'.attempt = rq.retries
               THEN /\ rq'.state = "returned" /\ rq'.result = "None"
                    /\ rq'.sleeps = rq.sleeps
               ELSE /\ rq'.state = "loop" /\ rq'.result = "unset"
                    /\ rq'.sleeps = rq.sleeps + 1]_vars

\* A call with retries = 3 that returned None after three failed attempts of
\* more than one category: one of them a timeout, the last an HTTP error
\* status.
C19_Witness ==
    /\ rq.state = "returned" /\ rq.result = "None"
    /\ rq.retries = 3 /\ rq.calls = 3 /\ rq.fails = 3
    /\ rq.timeouts = 1 /\ rq.last = "http"

\* C20: robust_request sleeps retry_delay, the same value every time, exactly
\* once between two consecutive attempts and never otherwise: while the loop
\* goes on there has been one sleep per attempt made, once the call is over
\* one less than attempts made (none after the final failed attempt, none
\* after a successful one), hence N - 1 sleeps when all N attempts failed.
C20_ConstantDelayBetweenAttempts ==
    /\ Len(rq.delays) = rq.sleeps
    /\ \A i \in 1..Len(rq.delays) : rq.delays[i] = rq.retry_delay
    /\ rq.state = "loop" => rq.sleeps = rq.calls
    /\ rq.state \in {"returned", "raised"} =>
          rq.sleeps = IF rq.calls = 0 THEN 0 ELSE rq.calls - 1
    /\ (rq.state = "returned" /\ rq.retries > 0 /\ rq.fails = rq.retries) =>
          rq.sleeps = rq.retries - 1

\* A call with retries = 3 and retry_delay = 1 whose three attempts failed:
\* it slept twice, one second each time.
C20_Witness ==
    /\ rq.state = "returned" /\ rq.result = "None"
    /\ rq.retries = 3 /\ rq.fails = 3
    /\ rq.retry_delay = 1 /\ rq.delays = <<1, 1>>

(* ---- the claim about KeyboardInterrupt ---- *)

\* C11: a KeyboardInterrupt that arrives during the interactive loop ends
\* the loop after the step in flight has finished: no request is abandoned
\* between its attempts, no download is abandoned before or while its body
\* is written, no file is left with a part of the body; nothing is started
\* afterwards and interactive_mode returns 0.
C11_InterruptFinishesStep ==
    (pl.fn = "loop" /\ pl.intr # <<>>) =>
      /\ pl.intr[1].rq # "loop"
      /\ pl.intr[1].dl \notin {"request", "stream"}
      /\ pl.file # "partial"
      /\ pl.pc = "exited" /\ pl.result = "0"
      /\ rq.state = "idle" /\ pl.open = {}

(* ---- the claims about the output file name ---- *)

\* The header has a filename= parameter.
CarriesFilename(cd) ==
    cd # <<>> /\ \E i \in 1..Len(cd[1]) : cd[1][i] = "filename="

\* The tokens that begin a further parameter of the header.
ParameterTokens == {"; filename*=UTF-8''b"}

\* The value of the first filename= parameter: what stands between the
\* quotes when it is quoted, what stands before the next parameter when it
\* is not.
FilenameParameter(v) ==
    LET i == CHOOSE i \in 1..Len(v) :
                 v[i] = "filename=" /\ \A j \in 1..(i - 1) : v[j] # "filename="
        quoted == i + 1 <= Len(v) /\ v[i + 1] = Quote
        b == IF quoted THEN i + 2 ELSE i + 1
        stops == {k \in b..Len(v) :
                     IF quoted THEN v[k] = Quote ELSE v[k] \in ParameterTokens}
        e == IF stops = {} THEN Len(v)
             ELSE (CHOOSE k \in stops : \A l \in stops : k <= l) - 1
    IN  SubSeq(v, b, e)

\* A name with its extension, what follows its last dot, replaced.
WithExtension(name, ext) ==
    LET dots == {k \in 1..Len(name) : name[k] = "."} IN
    (IF dots = {} THEN name
     ELSE SubSeq(name, 1, (CHOOSE k \in dots : \A l \in dots : l <= k) - 1))
      \o <<ext>>

\* The characters the claim lists, and a text without them: the characters
\* of t that are not listed, each at its place among those kept.
ListedChars == {"\\", "/", "*", "?", ":", "\"", "<", ">", "|"}
Sanitized(t) ==
    LET kept == {i \in 1..Len(t) : t[i] \notin ListedChars}
        Nth(k) == CHOOSE i \in kept : Cardinality({j \in kept : j <= i}) = k
    IN  [k \in 1..Cardinality(kept) |-> t[Nth(k)]]

\* "{sanitizedTitle} - {sanitizedAuthor}{extension}"
Synthesized(book) ==
    Sanitized(book.title) \o <<" - ">> \o Sanitized(book.author)
        \o <<book.format_info.extension>>

\* C14: when the probe's content-disposition header contains filename=, the
\* output file name is the name given there with its extension replaced by
\* the extension of the selected format; only otherwise is it made of title
\* and author.
C14_HeaderNameFirst ==
    (pl.fn \in {"single", "loop"} /\ pl.filename # <<>>) =>
        pl.filename[1] =
            IF CarriesFilename(pl.probe)
            THEN WithExtension(FilenameParameter(pl.probe[1]),
                               pl.selected[1].format_info.extension)
            ELSE Synthesized(pl.selected[1])

\* C15: when the probe has no content-disposition header the output file
\* name is "{sanitizedTitle} - {sanitizedAuthor}{extension}", title and
\* author without any of the characters \ / * ? : " < > | and otherwise
\* unchanged.
C15_FallbackFilename ==
    (pl.fn \in {"single", "loop"} /\ pl.filename # <<>> /\ pl.probe = <<>>)
        => pl.filename[1] = Synthesized(pl.selected[1])

\* The book whose title and author hold listed characters, several of them
\* and one twice over, was selected and the probe had no header: the file
\* is named "Dune - Herb.epub".
C15_Witness ==
    /\ pl.fn \in {"single", "loop"}
    /\ pl.filename # <<>> /\ pl.probe = <<>>
    /\ pl.selected[1].title = A6.title[1]
    /\ pl.filename[1] = <<"D", "u", "n", "e", " - ", "H", "e", "r", "b",
                          ".epub">>

(* ---- the claim about the headers of the download ---- *)

Count(lines, line) == Cardinality({i \in 1..Len(lines) : lines[i] = line})

C21_ReturnsOnFirstSuccess ==
    /\ [](rq.state # "idle" =>
            /\ rq.attempt = rq.iter
            /\ rq.calls > 0 => rq.attempt = rq.calls
            /\ rq.result = "response" =>
                  /\ rq.state = "returned" /\ rq.last = "ok"
                  /\ rq.calls = rq.fails + 1
                  /\ ~ENABLED NextRequest)
    /\ [][(rq.iter = 0 /\ rq'.iter = 1) => rq'.attempt = 1]_vars
    /\ [][(rq'.calls = rq.calls + 1 /\ rq'.last = "ok") =>
            (rq'.state = "returned" /\ rq'.result = "response"
               /\ rq'.fails = rq.fails /\ rq'.sleeps = rq.sleeps)]_vars

\* A call with retries = 3 whose first attempt failed and whose second
\* succeeded: it returned the response with one attempt left unused.
C21_Witness ==
    /\ rq.state = "returned" /\ rq.result = "response"
    /\ rq.retries = 3 /\ rq.attempt = 2 /\ rq.calls = 2 /\ rq.fails = 1

\* C25: whenever robust_request started a spinner (show_spinner true), the
\* spinner has been stopped, its running flag cleared and its thread joined,
\* when control is back at the caller, however the call ended: with a
\* response, with None after its attempts were used up (or with none to
\* make), or on an unsupported method.
C25_SpinnerStoppedOnEveryExit ==
    (rq.show /\ rq.state \in {"returned", "raised"}) => rq.spin = "stopped"

(* ---- the claims about the ranking and the indices of the candidates ---- *)

\* C22: ranking is idempotent: sorting the list returned by
\* extract_search_results once more by (-format_priority, original_index)
\* gives the same list, for every page and configuration.
C22_RankingIdempotent ==
    Extracted => SortBooks(books) = books

\* Three candidates were returned in another order than that of their
\* anchors, and sorting them again leaves them as they are.
C22_Witness ==
    /\ Extracted /\ Len(books) = 3
    /\ books # CollectBooks(page.anchors, 1, config,
                            PartialMatchesCount(page.partial))
    /\ SortBooks(books) = books

\* The positions, counted from 0, of the anchors that are kept: those with a
\* recognised format that is not ignored.
KeptPositions(anchors, cfg) ==
    {j - 1 : j \in {k \in 1..Len(anchors) :
        AcceptsFormat(determine_format_type(AnchorText(anchors[k]),
                                            cfg.formats.definitions), cfg)}}

\* C26: the original_index of a returned candidate is the position, counted
\* from 0, of its anchor among all result anchors of the page, those that
\* stood inside a comment and those dropped for their format included: the
\* candidate's link, title and author are those of the anchor at that
\* position, the indices returned are exactly the positions of the anchors
\* kept, and no two candidates have the same index.
C26_OriginalIndexIsAnchorPosition ==
    Extracted =>
      /\ \A i \in 1..Len(books) :
            LET k == books[i].original_index + 1 IN
            /\ k \in 1..Len(page.anchors)
            /\ books[i].link = page.anchors[k].href
            /\ books[i].title = TextOr(page.anchors[k].title, UnknownTitle)
            /\ books[i].author = TextOr(page.anchors[k].author, UnknownAuthor)
      /\ {books[i].original_index : i \in 1..Len(books)}
            = KeptPositions(page.anchors, config)
      /\ \A i, j \in 1..Len(books) :
            books[i].original_index = books[j].original_index => i = j

\* A page of three anchors, the last two inside the comment, of which the
\* second is dropped: the candidates returned have the indices 0 and 2.
C26_Witness ==
    /\ Extracted
    /\ Len(page.anchors) = 3 /\ page.shown = 1
    /\ {books[i].original_index : i \in 1..Len(books)} = {0, 2}

(* ---- the claim about the content mismatch warning ---- *)

\* The lower-cased value of a header of the response holds the content type
\* expected of the format; the lower-cased content-type holds octet-stream;
\* the lower-cased content-disposition holds filename=.
Mentions(value, format_info) ==
    Contains(LowerTokens(Get(value, <<>>)),
             MimeTokens(format_info.content_type))
GenericBinary(h) == Contains(LowerTokens(Get(h.ct, <<>>)), <<"octet-stream">>)
NamesFile(h) == Contains(LowerTokens(Get(h.cd, <<>>)), <<"filename=">>)

C28_MenuPositionSelectsCandidate ==
    (pl.fn \in {"single", "loop"} /\ pl.interactive) =>
      /\ pl.menu # <<>> =>
            /\ Len(pl.menu) = Len(books) + 1
            /\ \A k \in 1..Len(books) :
                  pl.menu[k].label = <<k>> /\ pl.menu[k].book = <<books[k]>>
            /\ pl.menu[Len(pl.menu)].book = <<>>
            /\ pl.menu[Len(pl.menu)].value = Cancel
      /\ pl.selected # <<>> =>
            /\ pl.picked # <<>> /\ pl.picked[1] \in 1..Len(books)
            /\ pl.menu[pl.picked[1]].label = pl.picked
            /\ pl.selected = pl.menu[pl.picked[1]].book
            /\ pl.selected[1] = books[pl.picked[1]]
            /\ pl.fetched = <<pl.selected[1].link>>
      /\ (pl.selected = <<>> /\ pl.pc \notin {"for", "input", "exited",
                                              "crashed", "done"})
            => pl.fetched = <<>>

\* The menu listed two candidates, the user chose the entry labelled 2, and
\* the second ranked candidate was fetched and downloaded.
C28_Witness ==
    /\ pl.fn = "single" /\ pl.interactive
    /\ pl.pc = "done" /\ pl.result = "True"
    /\ Len(books) = 2 /\ pl.picked = <<2>>
    /\ pl.selected[1] = books[2] /\ pl.fetched = <<books[2].link>>

(* ---- the claim about the characters of the output file name ---- *)

\* The tokens of a file name that are, or hold, one of the listed
\* characters.
HoldsListedChar(token) ==
    token \in ListedChars \cup {"; filename*=UTF-8''b"}

\* C29: the file name joined to the output directory holds none of the
\* characters \ / * ? : " < > |, whether it was taken from the probe's
\* content-disposition header or made of title and author, so that the
\* file lies directly inside the output directory.
C29_FilenameHasNoHostileChar ==
    (pl.fn \in {"single", "loop"} /\ pl.filename # <<>>) =>
        \A i \in 1..Len(pl.filename[1]) : ~HoldsListedChar(pl.filename[1][i])

(* ---- the claims about the stages of a query ---- *)

\* The request of a stage is issued in this step, for the query under way.
StageStarts(stage) == stage \notin pl.reqs /\ stage \in pl'.reqs

\* The stages whose request has been issued, as the order of the stages
\* allows them to be.
StagePrefixes ==
    { {}, {"search"}, {"search", "detail"}, {"search", "detail", "head"},
      {"search", "detail", "head", "download"} }

\* C24: within one query the stages run in the order search request,
\* extraction, selection, book page request, link extraction, HEAD probe,
\* download, each only after every earlier one succeeded. The book page is
\* requested only for a candidate selected from a list that extraction
\* returned non-empty after a search that succeeded (a page without
\* candidates ends the query with no menu and no selection); the probe is
\* issued only after the book page request returned a response and a
\* download link was extracted from it; the download request is issued, and
\* the file written, only after the probe returned a response.
C24_StagesInOrder ==
    /\ [](pl.fn \in {"single", "loop"} =>
            /\ pl.reqs \in StagePrefixes
            /\ (pl.dl # "idle" \/ pl.file # "none" \/ pl.chunks > 0)
                  => "download" \in pl.reqs
            /\ pl.pc = "menu" => (books # <<>> /\ pl.reqs = {"search"})
            /\ pl.link # <<>> => "head" \in pl.reqs
            /\ pl.filename # <<>> => "download" \in pl.reqs)
    /\ [][StageStarts("search") =>
            (pl'.reqs = {"search"} /\ pl'.selected = <<>>
               /\ pl'.link = <<>> /\ pl'.filename = <<>>
               /\ pl'.file = "none" /\ rq'.state = "loop")]_vars
    /\ [][(pl.pc = "search" /\ rq.result = "response" /\ books' = <<>>
             /\ pl'.pc # "exited") =>
            (pl'.pc \in {"done", "for"} /\ pl'.prompts = 0
               /\ pl'.selected = <<>> /\ pl'.reqs = {"search"}
               /\ rq'.state = "idle")]_vars
    /\ [][StageStarts("detail") =>
            (/\ pl.reqs = {"search"} /\ pl.failure = "none"
             /\ books' # <<>> /\ pl'.selected # <<>>
             /\ \E i \in 1..Len(books') : books'[i] = pl'.selected[1]
             /\ pl.pc = "search" => rq.result = "response"
             /\ rq'.state = "loop")]_vars
    /\ [][StageStarts("head") =>
            (/\ pl.reqs = {"search", "detail"} /\ pl.pc = "detail"
             /\ rq.result = "response"
             /\ pl.selected # <<>> /\ pl'.link # <<>>
             /\ rq'.state = "loop" /\ rq'.method = "head")]_vars
    /\ [][StageStarts("download") =>
            (/\ pl.reqs = {"search", "detail", "head"} /\ pl.pc = "head"
             /\ rq.result = "response"
             /\ pl.link # <<>> /\ pl'.filename # <<>>
             /\ rq'.state = "loop")]_vars
    /\ [][(pl.file = "none" /\ pl'.file # "none") =>
            (/\ "download" \in pl.reqs /\ pl.dl = "request"
             /\ rq.result = "response")]_vars

\* A run of download_book_by_query that went through every stage: the four
\* requests were issued, a link was extracted, the file is complete.
C24_Witness ==
    /\ pl.fn = "single" /\ pl.pc = "done" /\ pl.result = "True"
    /\ pl.reqs = {"search", "detail", "head", "download"}
    /\ pl.selected # <<>> /\ pl.link # <<>> /\ pl.filename # <<>>
    /\ pl.file = "complete" /\ ~pl.interactive

\* The lines download_book_by_query prints for a failure.
FailureLines ==
    {"Search failed", "No books found", "Failed to access book details",
     "No download link found", "Failed to prepare download",
     "Download failed"}

\* The failure that ended a run of download_book_by_query, as the line it
\* is to be reported with and the requests issued up to it; <<>> when the
\* run did not fail.
SingleFailure(p, bs) ==
    CASE p.failure = "search" -> <<"Search failed", {"search"}>>
      [] p.failure = "detail" ->
            <<"Failed to access book details", {"search", "detail"}>>
      [] p.failure = "head" ->
            <<"Failed to prepare download", {"search", "detail", "head"}>>
      [] p.failure \in {"download", "stream"} ->
            <<"Download failed", {"search", "detail", "head", "download"}>>
      [] p.failure = "none" /\ ~p.cancelled /\ bs = <<>> ->
            <<"No books found", {"search"}>>
      [] p.failure = "none" /\ p.selected # <<>> /\ p.link = <<>> ->
            <<"No download link found", {"search", "detail"}>>
      [] OTHER -> <<>>

\* C23: in single-query mode every failure (of the search, no candidates,
\* of the book page, no download link, of the probe, of the download) is
\* reported by one line and ends the run: download_book_by_query returns
\* False with no request issued for a later stage, and it returns True only
\* when the file was downloaded.
C23_SingleFailureReportedAndAborts ==
    (pl.fn = "single" /\ pl.pc = "done") =>
      LET f == SingleFailure(pl, books) IN
      /\ rq.state = "idle"
      /\ pl.result = "True" <=>
            (f = <<>> /\ ~pl.cancelled /\ pl.dl = "ok"
               /\ pl.file = "complete")
      /\ f # <<>> =>
            /\ pl.result = "False"
            /\ pl.out[Len(pl.out)] = f[1]
            /\ \A l \in FailureLines : Count(pl.out, l) = IF l = f[1] THEN 1
                                                         ELSE 0
            /\ pl.reqs = f[2]

====
